---------------------------- MODULE Spec2Model ----------------------------
(***************************************************************************)
(* polarWarp (rust/src/main.rs): oplog statistics.                         *)
(*                                                                         *)
(* Six specifications share this module.                                   *)
(*   SpecBuckets  add_size_buckets applied to a column of byte counts      *)
(*                drawn from the boundary values of the nine buckets.      *)
(*   Spec         main(): the parse of the skip argument, the per-file     *)
(*                loop (process_file and the fold of the global time       *)
(*                range), the consolidation step and the Excel step.       *)
(*   SpecQuantile the latency aggregates of one group of records.          *)
(*   SpecDetail   the per-client and per-endpoint breakdowns, printed and  *)
(*                collected for the Excel detail tab.                      *)
(*   SpecSkip     parse_skip_time with the 64-bit arithmetic of the        *)
(*                source, on short arguments and on arguments around the   *)
(*                limits of i64.                                           *)
(*   SpecTabs     the worksheet names the Excel block gives to the files.  *)
(*                                                                         *)
(* Representation.                                                         *)
(*   - A byte count of the classifier is the pair [kib, rem] standing for  *)
(*     kib*1024 + rem with rem in 0..1023: 2 GiB does not fit the          *)
(*     integers of the model checker, and every bucket boundary is a       *)
(*     multiple of 1024, so the comparisons of the source are exact on     *)
(*     the pair.                                                           *)
(*   - Times are whole seconds: a start_ns or end_ns of k stands for       *)
(*     k * 10^9 ns, and the nanoseconds of a skip argument likewise, so a  *)
(*     duration in seconds (ns / 1e9) is the plain difference.  A rate     *)
(*     x / seconds is kept as the fraction [num, den]; den = 0 is the      *)
(*     float division by zero (inf or NaN), den < 0 a negative rate.       *)
(*   - Option<T> is a sequence: <<>> is None, <<v>> is Some(v).            *)
(*   - Every record has parsed (non-null) start_ns and end_ns.             *)
(***************************************************************************)
EXTENDS Integers, Sequences, FiniteSets, TLC

VARIABLES
    \* ---- SpecBuckets
    bytes_col,          \* the "bytes" column handed to add_size_buckets
    bucket_cols,        \* the two columns it adds: <<>> before the call
    \* ---- Spec
    pc,                 \* position of main()
    args,               \* parsed command line
    skip_nanos,         \* main: skip_nanos (Option)
    files,              \* the input files read so far (rows in file order)
    all_dataframes,     \* main: all_dataframes
    global_start_ns,    \* main: global_start_ns (Option)
    global_end_ns,      \* main: global_end_ns (Option)
    file_results,       \* what process_file returned and printed, per file
    consolidated,       \* the consolidated report printed (Option)
    file_excel_data,    \* main: file_excel_data
    consolidated_excel, \* main: consolidated_excel (Option)
    workbook,           \* tabs of the written workbook (Option)
    \* ---- SpecQuantile
    duration_ns,        \* the duration_ns column of one group
    lat_stats,          \* the latency aggregates of the group (Option)
    \* ---- SpecDetail
    detail_in,          \* the dataframe and run time handed to the breakdowns
    detail_out,         \* what the breakdowns printed and collected (Option)
    \* ---- SpecSkip
    skip_arg,           \* the --skip argument, a sequence of characters
    skip_out,           \* what parse_skip_time did with it (Option)
    \* ---- SpecTabs
    tab_files,          \* the paths of the files of file_excel_data
    tab_names           \* the short names and worksheet names (Option)

vars == <<bytes_col, bucket_cols, pc, args, skip_nanos, files, all_dataframes,
          global_start_ns, global_end_ns, file_results, consolidated,
          file_excel_data, consolidated_excel, workbook,
          duration_ns, lat_stats, detail_in, detail_out,
          skip_arg, skip_out, tab_files, tab_names>>

skipVars == <<skip_arg, skip_out>>
tabVars == <<tab_files, tab_names>>
pureVars == <<duration_ns, lat_stats, detail_in, detail_out, skipVars, tabVars>>
bucketVars == <<bytes_col, bucket_cols>>
mainVars == <<pc, args, skip_nanos, files, all_dataframes, global_start_ns, global_end_ns,
              file_results, consolidated, file_excel_data, consolidated_excel,
              workbook>>

None == <<>>
Some(v) == <<v>>
IsSome(o) == Len(o) = 1
Unwrap(o) == o[1]

Max(a, b) == IF a >= b THEN a ELSE b
Min(a, b) == IF a <= b THEN a ELSE b
Range(s) == {s[i] : i \in DOMAIN s}

(***************************************************************************)
(* Size buckets                                                            *)
(***************************************************************************)
NUM_BUCKETS == 9

\* Bucket boundaries, in KiB (the source gives them in bytes).
KIB == 1024
BUCKET_8K == 8
BUCKET_64K == 64
BUCKET_512K == 512
BUCKET_4M == 4 * 1024
BUCKET_32M == 32 * 1024
BUCKET_256M == 256 * 1024
BUCKET_2G == 2 * 1024 * 1024

BUCKET_LABELS == <<"zero", "1B-8KiB", "8KiB-64KiB", "64KiB-512KiB",
                   "512KiB-4MiB", "4MiB-32MiB", "32MiB-256MiB",
                   "256MiB-2GiB", ">2GiB">>

\* A byte count as [kib, rem]; Split converts a small plain integer.
KR(k, r) == [kib |-> k, rem |-> r]
Split(b) == KR(b \div KIB, b % KIB)

\* col("bytes").eq(lit(0)), .gt_eq(lit(1)), .gt_eq(lit(K)), .lt(lit(K))
\* for a boundary of K KiB.
BytesEq0(b) == b.kib = 0 /\ b.rem = 0
BytesGtEq1(b) == b.kib > 0 \/ b.rem >= 1
BytesGtEq(b, K) == b.kib >= K
BytesLt(b, K) == b.kib < K

\* The label chain with the 2 GiB boundary taken as inclusive (<= for <).
bytes_bucket_mut(b) ==
    IF BytesEq0(b) THEN BUCKET_LABELS[1]
    ELSE IF BytesGtEq1(b) /\ BytesLt(b, BUCKET_8K) THEN BUCKET_LABELS[2]
    ELSE IF BytesGtEq(b, BUCKET_8K) /\ BytesLt(b, BUCKET_64K) THEN BUCKET_LABELS[3]
    ELSE IF BytesGtEq(b, BUCKET_64K) /\ BytesLt(b, BUCKET_512K) THEN BUCKET_LABELS[4]
    ELSE IF BytesGtEq(b, BUCKET_512K) /\ BytesLt(b, BUCKET_4M) THEN BUCKET_LABELS[5]
    ELSE IF BytesGtEq(b, BUCKET_4M) /\ BytesLt(b, BUCKET_32M) THEN BUCKET_LABELS[6]
    ELSE IF BytesGtEq(b, BUCKET_32M) /\ BytesLt(b, BUCKET_256M) THEN BUCKET_LABELS[7]
    ELSE IF BytesGtEq(b, BUCKET_256M) /\ (BytesLt(b, BUCKET_2G) \/ b = KR(BUCKET_2G, 0))
        THEN BUCKET_LABELS[8]
    ELSE BUCKET_LABELS[9]

\* First when/then chain of add_size_buckets: the label column.
bytes_bucket(b) ==
    IF BytesEq0(b) THEN BUCKET_LABELS[1]
    ELSE IF BytesGtEq1(b) /\ BytesLt(b, BUCKET_8K) THEN BUCKET_LABELS[2]
    ELSE IF BytesGtEq(b, BUCKET_8K) /\ BytesLt(b, BUCKET_64K) THEN BUCKET_LABELS[3]
    ELSE IF BytesGtEq(b, BUCKET_64K) /\ BytesLt(b, BUCKET_512K) THEN BUCKET_LABELS[4]
    ELSE IF BytesGtEq(b, BUCKET_512K) /\ BytesLt(b, BUCKET_4M) THEN BUCKET_LABELS[5]
    ELSE IF BytesGtEq(b, BUCKET_4M) /\ BytesLt(b, BUCKET_32M) THEN BUCKET_LABELS[6]
    ELSE IF BytesGtEq(b, BUCKET_32M) /\ BytesLt(b, BUCKET_256M) THEN BUCKET_LABELS[7]
    ELSE IF BytesGtEq(b, BUCKET_256M) /\ BytesLt(b, BUCKET_2G) THEN BUCKET_LABELS[8]
    ELSE BUCKET_LABELS[9]

\* The ordinal chain with the 8 KiB boundary taken as inclusive (<= for <).
bucket_num_mut(b) ==
    IF BytesEq0(b) THEN 0
    ELSE IF BytesGtEq1(b) /\ (BytesLt(b, BUCKET_8K) \/ b = KR(BUCKET_8K, 0)) THEN 1
    ELSE IF BytesGtEq(b, BUCKET_8K) /\ BytesLt(b, BUCKET_64K) THEN 2
    ELSE IF BytesGtEq(b, BUCKET_64K) /\ BytesLt(b, BUCKET_512K) THEN 3
    ELSE IF BytesGtEq(b, BUCKET_512K) /\ BytesLt(b, BUCKET_4M) THEN 4
    ELSE IF BytesGtEq(b, BUCKET_4M) /\ BytesLt(b, BUCKET_32M) THEN 5
    ELSE IF BytesGtEq(b, BUCKET_32M) /\ BytesLt(b, BUCKET_256M) THEN 6
    ELSE IF BytesGtEq(b, BUCKET_256M) /\ BytesLt(b, BUCKET_2G) THEN 7
    ELSE 8

\* Second when/then chain of add_size_buckets: the ordinal column.
bucket_num(b) ==
    IF BytesEq0(b) THEN 0
    ELSE IF BytesGtEq1(b) /\ BytesLt(b, BUCKET_8K) THEN 1
    ELSE IF BytesGtEq(b, BUCKET_8K) /\ BytesLt(b, BUCKET_64K) THEN 2
    ELSE IF BytesGtEq(b, BUCKET_64K) /\ BytesLt(b, BUCKET_512K) THEN 3
    ELSE IF BytesGtEq(b, BUCKET_512K) /\ BytesLt(b, BUCKET_4M) THEN 4
    ELSE IF BytesGtEq(b, BUCKET_4M) /\ BytesLt(b, BUCKET_32M) THEN 5
    ELSE IF BytesGtEq(b, BUCKET_32M) /\ BytesLt(b, BUCKET_256M) THEN 6
    ELSE IF BytesGtEq(b, BUCKET_256M) /\ BytesLt(b, BUCKET_2G) THEN 7
    ELSE 8

\* The two columns add_size_buckets appends, for one row.
BucketColumns(b) == [bytes_bucket |-> bytes_bucket(b), bucket_num |-> bucket_num(b)]

\* Byte counts on and next to every boundary, and one far above 2 GiB.
Boundaries == {BUCKET_8K, BUCKET_64K, BUCKET_512K, BUCKET_4M, BUCKET_32M,
               BUCKET_256M, BUCKET_2G}
ProbeBytes ==
    {KR(0, 0), KR(0, 1), KR(0, 2), KR(4 * BUCKET_2G, 5)}
    \cup {KR(K - 1, KIB - 1) : K \in Boundaries}
    \cup {KR(K, 0) : K \in Boundaries}
    \cup {KR(K, 1) : K \in Boundaries}

MaxCol == 2

SeqsUpTo(S, n) == UNION {[1..k -> S] : k \in 1..n}

IdleMain ==
    /\ pc = "idle"
    /\ args = [skip |-> None, nfiles |-> 0, basic_stats |-> FALSE, excel |-> FALSE]
    /\ skip_nanos = None
    /\ files = <<>>
    /\ all_dataframes = <<>>
    /\ global_start_ns = None
    /\ global_end_ns = None
    /\ file_results = <<>>
    /\ consolidated = None
    /\ file_excel_data = <<>>
    /\ consolidated_excel = None
    /\ workbook = None

IdleQuantile == duration_ns = <<>> /\ lat_stats = None
IdleDetail == detail_in = None /\ detail_out = None
IdleSkip == skip_arg = <<>> /\ skip_out = None
IdleTabs == tab_files = <<>> /\ tab_names = None

InitBuckets ==
    /\ bytes_col \in SeqsUpTo(ProbeBytes, MaxCol)
    /\ bucket_cols = <<>>
    /\ IdleMain
    /\ IdleQuantile
    /\ IdleDetail
    /\ IdleSkip
    /\ IdleTabs

\* add_size_buckets: both columns are added to every row in one call.
AddSizeBuckets ==
    /\ bucket_cols = <<>>
    /\ bucket_cols' = [i \in DOMAIN bytes_col |-> BucketColumns(bytes_col[i])]
    /\ UNCHANGED <<bytes_col, mainVars, pureVars>>

NextBuckets == AddSizeBuckets

SpecBuckets == InitBuckets /\ [][NextBuckets]_vars

(***************************************************************************)
(* C4: for every bytes >= 0 the ordinal column holds exactly the ordinal   *)
(* of the claimed partition {0}, (0,8Ki), [8Ki,64Ki), ..., [2Gi,inf): the  *)
(* number of lower boundaries 1 B, 8 KiB, ..., 2 GiB that are <= bytes.    *)
(* The boundaries are contiguous, so this is one ordinal in 0..8 with no   *)
(* gap and no overlap (8191 -> 1, 8192 -> 2, 2^31-1 -> 7, 2^31 -> 8).      *)
(***************************************************************************)
ClaimedOrdinal(b) ==
    (IF b.kib > 0 \/ b.rem > 0 THEN 1 ELSE 0)
    + Cardinality({K \in Boundaries : K <= b.kib})

C4_Partition ==
    \A i \in DOMAIN bucket_cols :
        /\ bucket_cols[i].bucket_num \in 0..(NUM_BUCKETS - 1)
        /\ bucket_cols[i].bucket_num = ClaimedOrdinal(bytes_col[i])

C4_Examples ==
    \A i \in DOMAIN bucket_cols :
        /\ bytes_col[i] = KR(7, 1023) => bucket_cols[i].bucket_num = 1
        /\ bytes_col[i] = KR(8, 0) => bucket_cols[i].bucket_num = 2
        /\ bytes_col[i] = KR(BUCKET_2G - 1, 1023) => bucket_cols[i].bucket_num = 7
        /\ bytes_col[i] = KR(BUCKET_2G, 0) => bucket_cols[i].bucket_num = 8

C4_Buckets == C4_Partition /\ C4_Examples

\* A classified column holding 8191, 8192 bytes side by side.
C4_Witness ==
    /\ Len(bucket_cols) = 2
    /\ bytes_col = <<KR(7, 1023), KR(8, 0)>>
    /\ bucket_cols[1].bucket_num = 1
    /\ bucket_cols[2].bucket_num = 2

(***************************************************************************)
(* C5: on every row the label column is BUCKET_LABELS[ordinal column].     *)
(***************************************************************************)
C5_LabelMatchesOrdinal ==
    \A i \in DOMAIN bucket_cols :
        bucket_cols[i].bytes_bucket = BUCKET_LABELS[bucket_cols[i].bucket_num + 1]

\* A classified row on the 2 GiB boundary, in the otherwise branch of both chains.
C5_Witness ==
    /\ Len(bucket_cols) = 1
    /\ bytes_col[1] = KR(BUCKET_2G, 0)
    /\ bucket_cols[1].bytes_bucket = ">2GiB"
    /\ bucket_cols[1].bucket_num = 8


(***************************************************************************)
(* Records, categories and op-name order                                   *)
(***************************************************************************)
META_OPS == {"LIST", "HEAD", "DELETE", "STAT"}
GET_OPS == {"GET"}
PUT_OPS == {"PUT"}

MIB == 1024 * 1024

\* The bytes of an op name; the sort compares names bytewise.
OpChars(op) ==
    CASE op = "COPY" -> <<67, 79, 80, 89>>
      [] op = "DELETE" -> <<68, 69, 76, 69, 84, 69>>
      [] op = "GET" -> <<71, 69, 84>>
      [] op = "HEAD" -> <<72, 69, 65, 68>>
      [] op = "LIST" -> <<76, 73, 83, 84>>
      [] op = "PUT" -> <<80, 85, 84>>
      [] op = "STAT" -> <<83, 84, 65, 84>>

RECURSIVE LexLess(_, _)
LexLess(a, b) ==
    IF b = <<>> THEN FALSE
    ELSE IF a = <<>> THEN TRUE
    ELSE IF a[1] # b[1] THEN a[1] < b[1]
    ELSE LexLess(Tail(a), Tail(b))

OpLess(x, y) == LexLess(OpChars(x), OpChars(y))

\* A float quotient num / den, kept exact.
Rate(n, d) == [num |-> n, den |-> d]

RECURSIVE SumSeq(_)
SumSeq(s) == IF s = <<>> THEN 0 ELSE s[1] + SumSeq(Tail(s))

SetMin(S) == CHOOSE x \in S : \A y \in S : x <= y
SetMax(S) == CHOOSE x \in S : \A y \in S : x >= y

\* The filter matching one operation of the list only.
Filter_mut(df, ops) == SelectSeq(df, LAMBDA r : r.op = (CHOOSE o \in ops : TRUE))

\* df.filter(col("op").is_in(ops)).
Filter(df, ops) == SelectSeq(df, LAMBDA r : r.op \in ops)

(***************************************************************************)
(* get_time_range: first start_ns and last end_ns of the rows in file      *)
(* order (df is not empty: read_tsv_file rejects a file with no rows).     *)
(***************************************************************************)
get_time_range(df) == <<df[1].start_ns, df[Len(df)].end_ns>>

\* add_size_buckets on the whole dataframe.
add_size_buckets(df) ==
    [i \in DOMAIN df |->
        [op |-> df[i].op, bytes |-> df[i].bytes,
         start_ns |-> df[i].start_ns, end_ns |-> df[i].end_ns,
         bytes_bucket |-> BucketColumns(Split(df[i].bytes)).bytes_bucket,
         bucket_num |-> BucketColumns(Split(df[i].bytes)).bucket_num]]

(***************************************************************************)
(* compute_op_run_time: max(end_ns) - min(start_ns) over the rows whose op *)
(* is in ops, 0 when there is none or when the difference is not positive. *)
(***************************************************************************)
\* The window taken over every row: the op filter is lost.
compute_op_run_time_mut(df, ops) ==
    LET filtered == df
    IN  IF filtered = <<>> THEN 0
        ELSE LET s == SetMin({r.start_ns : r \in Range(filtered)})
                 e == SetMax({r.end_ns : r \in Range(filtered)})
             IN  IF e > s THEN e - s ELSE 0

compute_op_run_time(df, ops) ==
    LET filtered == Filter(df, ops)
    IN  IF filtered = <<>> THEN 0
        ELSE LET s == SetMin({r.start_ns : r \in Range(filtered)})
                 e == SetMax({r.end_ns : r \in Range(filtered)})
             IN  IF e > s THEN e - s ELSE 0

\* op_eff_time without the fall back to the global run time.
op_eff_time_mut(op, meta_time, get_time, put_time, run_time_secs) ==
    IF op \in META_OPS THEN meta_time
    ELSE IF op = "GET" THEN get_time
    ELSE IF op = "PUT" THEN put_time
    ELSE run_time_secs

\* The closure op_eff_time of compute_and_display_stats.
op_eff_time(op, meta_time, get_time, put_time, run_time_secs) ==
    LET t == IF op \in META_OPS THEN meta_time
             ELSE IF op = "GET" THEN get_time
             ELSE IF op = "PUT" THEN put_time
             ELSE run_time_secs
    IN  IF t > 0 THEN t ELSE run_time_secs

(***************************************************************************)
(* group_by([op, bytes_bucket, bucket_num]) then sort([bucket_num, op]).   *)
(* The groups come out of group_by in the order of first appearance (one   *)
(* of the orders the engine may produce); the sort is an insertion sort on *)
(* the sort key.                                                           *)
(***************************************************************************)
GroupKey(r) == [op |-> r.op, bytes_bucket |-> r.bytes_bucket, bucket_num |-> r.bucket_num]

RECURSIVE GroupKeys(_)
GroupKeys(df) ==
    IF df = <<>> THEN <<>>
    ELSE LET front == GroupKeys(SubSeq(df, 1, Len(df) - 1))
             k == GroupKey(df[Len(df)])
         IN  IF k \in Range(front) THEN front ELSE Append(front, k)

\* The sort on bucket_num alone.
SortKeyLess_mut(a, b) == a.bucket_num < b.bucket_num

\* sort(["bucket_num", "op"]): ascending bucket_num, then ascending op.
SortKeyLess(a, b) ==
    \/ a.bucket_num < b.bucket_num
    \/ a.bucket_num = b.bucket_num /\ OpLess(a.op, b.op)

\* Insert k into the sorted sequence s, after every element not greater.
RECURSIVE Insert(_, _)
Insert(s, k) ==
    IF s = <<>> THEN <<k>>
    ELSE IF SortKeyLess(k, s[1]) THEN <<k>> \o s
    ELSE <<s[1]>> \o Insert(Tail(s), k)

RECURSIVE SortKeys(_)
SortKeys(ks) ==
    IF ks = <<>> THEN <<>>
    ELSE Insert(SortKeys(SubSeq(ks, 1, Len(ks) - 1)), ks[Len(ks)])

GroupRows(df, k) == SelectSeq(df, LAMBDA r : GroupKey(r) = k)

\* One printed bucket row: the aggregates of a group and its rates.
BucketRow(df, k, eff_time) ==
    LET g == GroupRows(df, k)
        cnt == Len(g)
        bsum == SumSeq([i \in DOMAIN g |-> g[i].bytes])
    IN  [op |-> k.op, bytes_bucket |-> k.bytes_bucket, bucket_num |-> k.bucket_num,
         count |-> cnt, bytes_sum |-> bsum, runtime_s |-> eff_time,
         ops |-> Rate(cnt, eff_time), xput |-> Rate(bsum, MIB * eff_time)]

(***************************************************************************)
(* compute_and_print_summary_row: None when the category has no row.       *)
(***************************************************************************)
\* The summary row without the test on count: an empty category is a zero row.
compute_and_print_summary_row_mut(df, run_time_secs, op_run_time, category, ops, bucket_idx) ==
    LET g == Filter(df, ops)
        count == Len(g)
        bsum == SumSeq([i \in DOMAIN g |-> g[i].bytes])
        eff_time == IF op_run_time > 0 THEN op_run_time ELSE run_time_secs
    IN  Some([op |-> category, bytes_bucket |-> "ALL", bucket_num |-> bucket_idx,
              count |-> count, bytes_sum |-> bsum, runtime_s |-> eff_time,
              ops |-> Rate(count, eff_time), xput |-> Rate(bsum, MIB * eff_time)])

compute_and_print_summary_row(df, run_time_secs, op_run_time, category, ops, bucket_idx) ==
    LET g == Filter(df, ops)
        count == Len(g)
        bsum == SumSeq([i \in DOMAIN g |-> g[i].bytes])
        eff_time == IF op_run_time > 0 THEN op_run_time ELSE run_time_secs
    IN  IF count = 0 THEN None
        ELSE Some([op |-> category, bytes_bucket |-> "ALL", bucket_num |-> bucket_idx,
                   count |-> count, bytes_sum |-> bsum, runtime_s |-> eff_time,
                   ops |-> Rate(count, eff_time), xput |-> Rate(bsum, MIB * eff_time)])

(***************************************************************************)
(* The grand total line: the sum of the count column over the overall run  *)
(* time.                                                                   *)
(***************************************************************************)
\* The total divided by the effective time of the first row.
grand_total_mut(rows, run_time_secs) ==
    LET total_ops == SumSeq([i \in DOMAIN rows |-> rows[i].count])
        t == IF rows = <<>> THEN run_time_secs ELSE rows[1].runtime_s
    IN  [total_ops |-> total_ops, total_ops_sec |-> Rate(total_ops, t)]

grand_total(rows, run_time_secs) ==
    LET total_ops == SumSeq([i \in DOMAIN rows |-> rows[i].count])
    IN  [total_ops |-> total_ops, total_ops_sec |-> Rate(total_ops, run_time_secs)]

(***************************************************************************)
(* compute_and_display_stats: the printed report (per_client and           *)
(* per_endpoint off).                                                      *)
(***************************************************************************)
compute_and_display_stats(df, run_time_secs, title) ==
    LET meta_time == compute_op_run_time(df, META_OPS)
        get_time == compute_op_run_time(df, GET_OPS)
        put_time == compute_op_run_time(df, PUT_OPS)
        stats == SortKeys(GroupKeys(df))
        rows == [i \in DOMAIN stats |->
                    BucketRow(df, stats[i],
                              op_eff_time(stats[i].op, meta_time, get_time, put_time,
                                          run_time_secs))]
        total == grand_total(rows, run_time_secs)
    IN  [title |-> title,
         rows |-> rows,
         summaries |->
             compute_and_print_summary_row(df, run_time_secs, meta_time, "META", META_OPS, 97)
             \o compute_and_print_summary_row(df, run_time_secs, get_time, "GET", GET_OPS, 98)
             \o compute_and_print_summary_row(df, run_time_secs, put_time, "PUT", PUT_OPS, 99),
         total_ops |-> total.total_ops,
         total_ops_sec |-> total.total_ops_sec,
         run_time_secs |-> run_time_secs]

(***************************************************************************)
(* collect_stats_rows: the rows of an Excel results tab (header, bucket    *)
(* rows, summary rows), computed again from the dataframe.                 *)
(***************************************************************************)
\* The closure without the fallback on a zero window.
op_eff_mut(op, meta_time, get_time, put_time, run_time_secs) ==
    IF op \in META_OPS THEN meta_time
    ELSE IF op = "GET" THEN get_time
    ELSE IF op = "PUT" THEN put_time
    ELSE run_time_secs

\* The closure op_eff of collect_stats_rows.
op_eff(op, meta_time, get_time, put_time, run_time_secs) ==
    LET t == IF op \in META_OPS THEN meta_time
             ELSE IF op = "GET" THEN get_time
             ELSE IF op = "PUT" THEN put_time
             ELSE run_time_secs
    IN  IF t > 0 THEN t ELSE run_time_secs

\* One pass of the loop over the categories: the ALL row, or nothing when
\* the category has no record.
collect_summary_row(df, run_time_secs, meta_time, get_time, put_time, category, ops_list, bucket_idx) ==
    LET cs == SelectSeq(df, LAMBDA r : \E op \in ops_list : r.op = op)
        cnt == Len(cs)
        op_time == CASE category = "META" -> meta_time
                     [] category = "GET" -> get_time
                     [] category = "PUT" -> put_time
                     [] OTHER -> run_time_secs
        eff == IF op_time > 0 THEN op_time ELSE run_time_secs
        bsum == SumSeq([i \in DOMAIN cs |-> cs[i].bytes])
    IN  IF cnt = 0 THEN <<>>
        ELSE <<[op |-> category, bytes_bucket |-> "ALL", bucket_num |-> bucket_idx,
                count |-> cnt, bytes_sum |-> bsum, runtime_s |-> eff,
                ops |-> Rate(cnt, eff), xput |-> Rate(bsum, MIB * eff)]>>

collect_stats_rows(df, run_time_secs) ==
    LET meta_time == compute_op_run_time(df, META_OPS)
        get_time == compute_op_run_time(df, {"GET"})
        put_time == compute_op_run_time(df, {"PUT"})
        stats == SortKeys(GroupKeys(df))
        group(i) == SelectSeq(df, LAMBDA r : /\ r.op = stats[i].op
                                             /\ r.bytes_bucket = stats[i].bytes_bucket
                                             /\ r.bucket_num = stats[i].bucket_num)
        cnt(i) == Len(group(i))
        bsum(i) == SumSeq([j \in DOMAIN group(i) |-> group(i)[j].bytes])
        eff(i) == op_eff(stats[i].op, meta_time, get_time, put_time, run_time_secs)
        rows == [i \in DOMAIN stats |->
                    [op |-> stats[i].op, bytes_bucket |-> stats[i].bytes_bucket,
                     bucket_num |-> stats[i].bucket_num,
                     count |-> cnt(i), bytes_sum |-> bsum(i), runtime_s |-> eff(i),
                     ops |-> Rate(cnt(i), eff(i)),
                     xput |-> Rate(bsum(i), MIB * eff(i))]]
    IN  [header |-> "op",
         main_rows |->
             SelectSeq(rows, LAMBDA r : r.count # 0)
             \o collect_summary_row(df, run_time_secs, meta_time, get_time, put_time,
                                    "META", META_OPS, 97)
             \o collect_summary_row(df, run_time_secs, meta_time, get_time, put_time,
                                    "GET", {"GET"}, 98)
             \o collect_summary_row(df, run_time_secs, meta_time, get_time, put_time,
                                    "PUT", {"PUT"}, 99),
         detail_rows |-> <<>>]

(***************************************************************************)
(* parse_skip_time.  The argument is a sequence of characters.  The regex  *)
(* ^(\d+)([sm])$ matches one or more decimal digits (\d is the Unicode     *)
(* class: "u0663" stands for a digit outside 0-9) followed by s or m and   *)
(* nothing else; the digits are then parsed as an i64, which fails on a    *)
(* digit outside 0-9.  The result is in seconds (units of 10^9 ns).        *)
(***************************************************************************)
AsciiDigits == <<"0", "1", "2", "3", "4", "5", "6", "7", "8", "9">>
UnicodeDigits == Range(AsciiDigits) \cup {"u0663"}

DigitValue(c) == (CHOOSE i \in DOMAIN AsciiDigits : AsciiDigits[i] = c) - 1

RECURSIVE ParseI64(_)
ParseI64(ds) ==
    IF ds = <<>> THEN 0
    ELSE 10 * ParseI64(SubSeq(ds, 1, Len(ds) - 1)) + DigitValue(ds[Len(ds)])

\* The regex accepts every unit.
parse_skip_time_mut(skip) ==
    LET n == Len(skip)
        matches == /\ n >= 2
                   /\ \A i \in 1..(n - 1) : skip[i] \in UnicodeDigits
        digits == SubSeq(skip, 1, n - 1)
    IN  IF ~matches THEN [ok |-> FALSE, err |-> "InvalidSkipFormat", nanos |-> 0]
        ELSE IF \E i \in DOMAIN digits : digits[i] \notin Range(AsciiDigits)
            THEN [ok |-> FALSE, err |-> "ParseIntError", nanos |-> 0]
        ELSE IF skip[n] = "m"
            THEN [ok |-> TRUE, err |-> "", nanos |-> ParseI64(digits) * 60]
        ELSE [ok |-> TRUE, err |-> "", nanos |-> ParseI64(digits)]

parse_skip_time(skip) ==
    LET n == Len(skip)
        matches == /\ n >= 2
                   /\ skip[n] \in {"s", "m"}
                   /\ \A i \in 1..(n - 1) : skip[i] \in UnicodeDigits
        digits == SubSeq(skip, 1, n - 1)
    IN  IF ~matches THEN [ok |-> FALSE, err |-> "InvalidSkipFormat", nanos |-> 0]
        ELSE IF \E i \in DOMAIN digits : digits[i] \notin Range(AsciiDigits)
            THEN [ok |-> FALSE, err |-> "ParseIntError", nanos |-> 0]
        ELSE IF skip[n] = "s"
            THEN [ok |-> TRUE, err |-> "", nanos |-> ParseI64(digits)]
        ELSE [ok |-> TRUE, err |-> "", nanos |-> ParseI64(digits) * 60]

(***************************************************************************)
(* read_tsv_file.  A file is its header (the set of column names) and its  *)
(* data rows.  A file without data rows, or without one of the required    *)
(* columns, is an error.                                                   *)
(***************************************************************************)
required_columns == {"start", "end", "op", "bytes", "duration_ns"}

read_tsv_file(file) ==
    IF Len(file.rows) = 0 THEN [ok |-> FALSE, err |-> "NoDataRows", df |-> <<>>]
    ELSE IF required_columns \ file.columns # {}
        THEN [ok |-> FALSE, err |-> "MissingRequiredColumns", df |-> <<>>]
    ELSE [ok |-> TRUE, err |-> "", df |-> file.rows]

(***************************************************************************)
(* process_file.  ok = FALSE is the Err of read_tsv_file, passed on by ?.  *)
(***************************************************************************)
process_file(file, skip, basic_stats_only) ==
    LET read == read_tsv_file(file)
    IN  IF ~read.ok THEN
            [ok |-> FALSE, err |-> read.err, df |-> <<>>,
             file_start_ns |-> None, file_end_ns |-> None, report |-> None]
        ELSE IF basic_stats_only THEN
            [ok |-> TRUE, err |-> "", df |-> read.df,
             file_start_ns |-> None, file_end_ns |-> None, report |-> None]
        ELSE
            LET range == get_time_range(read.df)
                start_ns == range[1]
                end_ns == range[2]
                effective_start_ns ==
                    IF IsSome(skip) THEN start_ns + Unwrap(skip) ELSE start_ns
                filtered ==
                    IF IsSome(skip)
                    THEN SelectSeq(read.df, LAMBDA r : r.start_ns > effective_start_ns)
                    ELSE read.df
                run_time_secs == end_ns - effective_start_ns
                df == add_size_buckets(filtered)
            IN  [ok |-> TRUE, err |-> "", df |-> df,
                 file_start_ns |-> Some(effective_start_ns),
                 file_end_ns |-> Some(end_ns),
                 report |-> Some(compute_and_display_stats(df, run_time_secs, ""))]

\* Only the last frame of the list survives.
concat_dataframes_mut(dfs) == dfs[Len(dfs)]

\* concat_dataframes (the list is not empty where main calls it).
RECURSIVE concat_dataframes(_)
concat_dataframes(dfs) ==
    IF Len(dfs) = 1 THEN dfs[1]
    ELSE concat_dataframes(SubSeq(dfs, 1, Len(dfs) - 1)) \o dfs[Len(dfs)]

(***************************************************************************)
(* Inputs                                                                  *)
(***************************************************************************)
MaxFiles == 2
MaxRecords == 2

\* (op, bytes) of the records read: two metadata ops, GET, PUT and an op
\* outside the three categories.
OpBytes == {<<"LIST", 0>>, <<"HEAD", 0>>, <<"GET", 8192>>, <<"PUT", 1>>, <<"COPY", 1>>}
StartTimes == {0, 1}
Durations == {0, 2}
\* --skip arguments: absent, three well-formed ones and malformed ones
\* (empty, no digits, no unit, wrong unit, sign, upper case, trailing blank,
\* a fraction, a digit outside 0-9).
SkipArgs ==
    {None, Some(<<"0", "s">>), Some(<<"1", "s">>), Some(<<"1", "m">>),
     Some(<<>>), Some(<<"s">>), Some(<<"1">>), Some(<<"1", "h">>),
     Some(<<"-", "1", "s">>), Some(<<"1", "S">>), Some(<<"1", "s", " ">>),
     Some(<<"1", ".", "5">>), Some(<<"u0663", "s">>)}

Records ==
    {[op |-> ob[1], bytes |-> ob[2], start_ns |-> s, end_ns |-> s + d] :
        ob \in OpBytes, s \in StartTimes, d \in Durations}

\* Headers: every required column, or duration_ns missing.
Headers == {required_columns, required_columns \ {"duration_ns"}}

FileInputs(n) ==
    {[columns |-> h, rows |-> rs] :
        h \in Headers, rs \in UNION {[1..k -> Records] : k \in 0..n}}

RECURSIVE TotalRows(_)
TotalRows(fs) == IF fs = <<>> THEN 0 ELSE Len(fs[1].rows) + TotalRows(Tail(fs))

(***************************************************************************)
(* main                                                                    *)
(***************************************************************************)
Init ==
    /\ bytes_col = <<>>
    /\ bucket_cols = <<>>
    /\ pc = "start"
    /\ args \in [skip : SkipArgs, nfiles : 1..MaxFiles,
                 basic_stats : BOOLEAN, excel : BOOLEAN]
    /\ skip_nanos = None
    /\ files = <<>>
    /\ all_dataframes = <<>>
    /\ global_start_ns = None
    /\ global_end_ns = None
    /\ file_results = <<>>
    /\ consolidated = None
    /\ file_excel_data = <<>>
    /\ consolidated_excel = None
    /\ workbook = None
    /\ IdleQuantile
    /\ IdleDetail
    /\ IdleSkip
    /\ IdleTabs

\* The start of main: the skip argument is parsed before the loop over the
\* files; an Err of parse_skip_time ends the run there.
ParseSkip ==
    /\ pc = "start"
    /\ IF IsSome(args.skip) THEN
           LET parsed == parse_skip_time(Unwrap(args.skip))
           IN  IF parsed.ok THEN /\ pc' = "files"
                                 /\ skip_nanos' = Some(parsed.nanos)
               ELSE /\ pc' = "failed"
                    /\ UNCHANGED skip_nanos
       ELSE /\ pc' = "files"
            /\ skip_nanos' = None
    /\ UNCHANGED <<args, files, all_dataframes, global_start_ns, global_end_ns,
                   file_results, consolidated, file_excel_data, consolidated_excel,
                   workbook, bucketVars, pureVars>>

\* The fold of the start with min: the union of the windows.
fold_start_mut(gs, fs) == IF IsSome(gs) THEN Some(Min(Unwrap(gs), fs)) ELSE Some(fs)

\* The test of main on the folded range: no overlap.
no_overlap_mut(gs, ge) == gs > ge
no_overlap(gs, ge) == gs >= ge

\* The fold of one file's (start, end) into the global range.
fold_start(gs, fs) == IF IsSome(gs) THEN Some(Max(Unwrap(gs), fs)) ELSE Some(fs)
fold_end(ge, fe) == IF IsSome(ge) THEN Some(Min(Unwrap(ge), fe)) ELSE Some(fe)

\* One iteration of the loop over args.files.
ProcessFile ==
    /\ pc = "files"
    /\ Len(files) < args.nfiles
    /\ \E file \in FileInputs(MaxRecords - TotalRows(files)) :
        LET res == process_file(file, skip_nanos, args.basic_stats)
            has_range == IsSome(res.file_start_ns) /\ IsSome(res.file_end_ns)
        IN  /\ files' = Append(files, file)
            /\ IF ~res.ok THEN
                   /\ pc' = "failed"
                   /\ UNCHANGED <<all_dataframes, global_start_ns, global_end_ns,
                                  file_results, file_excel_data>>
               ELSE
                   /\ pc' = "files"
                   /\ file_results' = Append(file_results, res)
                   /\ IF has_range THEN
                          /\ global_start_ns' = fold_start(global_start_ns, Unwrap(res.file_start_ns))
                          /\ global_end_ns' = fold_end(global_end_ns, Unwrap(res.file_end_ns))
                      ELSE UNCHANGED <<global_start_ns, global_end_ns>>
                   /\ IF ~args.basic_stats THEN
                          /\ all_dataframes' = Append(all_dataframes, res.df)
                          /\ IF args.excel /\ has_range THEN
                                 file_excel_data' = Append(file_excel_data,
                                     collect_stats_rows(res.df,
                                         Unwrap(res.file_end_ns) - Unwrap(res.file_start_ns)))
                             ELSE UNCHANGED file_excel_data
                      ELSE UNCHANGED <<all_dataframes, file_excel_data>>
    /\ UNCHANGED <<args, skip_nanos, consolidated, consolidated_excel, workbook,
                   bucketVars, pureVars>>

\* The consolidation block entered as soon as one file has been processed.
Consolidate_mut ==
    /\ pc = "files"
    /\ Len(files) >= 1
    /\ IF args.nfiles > 1 /\ ~args.basic_stats
          /\ IsSome(global_start_ns) /\ IsSome(global_end_ns) THEN
           LET gs == Unwrap(global_start_ns)
               ge == Unwrap(global_end_ns)
               consolidated_df == concat_dataframes(all_dataframes)
           IN  IF no_overlap(gs, ge) THEN
                   /\ pc' = "done"
                   /\ UNCHANGED <<consolidated, consolidated_excel>>
               ELSE
                   /\ pc' = "excel"
                   /\ consolidated' = Some(compute_and_display_stats(
                                              consolidated_df, ge - gs, "Consolidated Results:"))
                   /\ consolidated_excel' =
                          IF args.excel THEN Some(collect_stats_rows(consolidated_df, ge - gs))
                          ELSE None
       ELSE
           /\ pc' = "excel"
           /\ UNCHANGED <<consolidated, consolidated_excel>>
    /\ UNCHANGED <<args, skip_nanos, files, all_dataframes, global_start_ns,
                   global_end_ns, file_results, file_excel_data, workbook, bucketVars, pureVars>>

\* After the loop: the consolidation block.
Consolidate ==
    /\ pc = "files"
    /\ Len(files) = args.nfiles
    /\ IF args.nfiles > 1 /\ ~args.basic_stats
          /\ IsSome(global_start_ns) /\ IsSome(global_end_ns) THEN
           LET gs == Unwrap(global_start_ns)
               ge == Unwrap(global_end_ns)
               consolidated_df == concat_dataframes(all_dataframes)
           IN  IF no_overlap(gs, ge) THEN
                   /\ pc' = "done"
                   /\ UNCHANGED <<consolidated, consolidated_excel>>
               ELSE
                   /\ pc' = "excel"
                   /\ consolidated' = Some(compute_and_display_stats(
                                              consolidated_df, ge - gs, "Consolidated Results:"))
                   /\ consolidated_excel' =
                          IF args.excel THEN Some(collect_stats_rows(consolidated_df, ge - gs))
                          ELSE None
       ELSE
           /\ pc' = "excel"
           /\ UNCHANGED <<consolidated, consolidated_excel>>
    /\ UNCHANGED <<args, skip_nanos, files, all_dataframes, global_start_ns,
                   global_end_ns, file_results, file_excel_data, workbook, bucketVars, pureVars>>

\* The Excel block at the end of main.
WriteExcel ==
    /\ pc = "excel"
    /\ pc' = "done"
    /\ LET single == Len(file_excel_data) = 1
           file_tabs == [i \in DOMAIN file_excel_data |->
                            [tab |-> "Results", file |-> IF single THEN 0 ELSE i,
                             rows |-> file_excel_data[i].main_rows]]
           tabs == file_tabs \o
                   (IF IsSome(consolidated_excel)
                    THEN <<[tab |-> "Consolidated", file |-> 0,
                            rows |-> Unwrap(consolidated_excel).main_rows]>>
                    ELSE <<>>)
       IN  workbook' = IF args.excel /\ tabs # <<>> THEN Some(tabs) ELSE None
    /\ UNCHANGED <<args, skip_nanos, files, all_dataframes, global_start_ns,
                   global_end_ns, file_results, consolidated, file_excel_data,
                   consolidated_excel, bucketVars, pureVars>>

Next == ParseSkip \/ ProcessFile \/ Consolidate \/ WriteExcel

Spec == Init /\ [][Next]_vars

TypeOK ==
    /\ pc \in {"idle", "start", "files", "excel", "done", "failed"}
    /\ Len(files) <= MaxFiles

(***************************************************************************)
(* What the properties speak about: the printed reports, each with the     *)
(* record set it was computed from and the overall run time of its file    *)
(* (of the global window, for the consolidated report).                    *)
(***************************************************************************)
FileReports == {i \in DOMAIN file_results : IsSome(file_results[i].report)}

PrintedReports ==
    {[df |-> file_results[i].df,
      report |-> Unwrap(file_results[i].report),
      overall |-> Unwrap(file_results[i].file_end_ns) - Unwrap(file_results[i].file_start_ns)] :
        i \in FileReports}
    \cup {[df |-> concat_dataframes(all_dataframes),
           report |-> consolidated[k],
           overall |-> Unwrap(global_end_ns) - Unwrap(global_start_ns)] :
             k \in DOMAIN consolidated}

Categories == {[name |-> "META", ops |-> META_OPS],
               [name |-> "GET", ops |-> GET_OPS],
               [name |-> "PUT", ops |-> PUT_OPS]}

CatRecords(df, ops) == {df[i] : i \in {j \in DOMAIN df : df[j].op \in ops}}
CatDuration(df, ops) ==
    SetMax({r.end_ns : r \in CatRecords(df, ops)})
    - SetMin({r.start_ns : r \in CatRecords(df, ops)})

\* The records of a bucket row's group, counted and summed from the record set.
RowIndices(df, row) ==
    {j \in DOMAIN df : df[j].op = row.op /\ df[j].bucket_num = row.bucket_num}
RECURSIVE BytesOver(_, _)
BytesOver(df, J) ==
    IF J = {} THEN 0
    ELSE LET j == CHOOSE x \in J : TRUE IN df[j].bytes + BytesOver(df, J \ {j})

\* row divides its own count and byte sum by the duration D.
RowDividesBy(row, cnt, bsum, D) ==
    /\ row.count = cnt
    /\ row.bytes_sum = bsum
    /\ row.runtime_s = D
    /\ row.ops = Rate(cnt, D)
    /\ row.xput = Rate(bsum, MIB * D)

SummaryOf(report, name) == {r \in Range(report.summaries) : r.op = name}

CategoryUses(p, c, D) ==
    /\ \A row \in Range(p.report.rows) :
           row.op \in c.ops =>
               RowDividesBy(row, Cardinality(RowIndices(p.df, row)),
                            BytesOver(p.df, RowIndices(p.df, row)), D)
    /\ \A row \in SummaryOf(p.report, c.name) :
           LET J == {j \in DOMAIN p.df : p.df[j].op \in c.ops}
           IN  RowDividesBy(row, Cardinality(J), BytesOver(p.df, J), D)

(***************************************************************************)
(* C1: in every printed report, a category (META, GET, PUT) that has a     *)
(* record and max(end_ns) > min(start_ns) over its records has its bucket  *)
(* rows and its summary row (which is present) computed as count / D and   *)
(* byte_sum / (1048576 * D), D being that category's own window.           *)
(***************************************************************************)
C1_CategoryEffectiveTime ==
    \A p \in PrintedReports : \A c \in Categories :
        (CatRecords(p.df, c.ops) # {} /\ CatDuration(p.df, c.ops) > 0) =>
            /\ CategoryUses(p, c, CatDuration(p.df, c.ops))
            /\ SummaryOf(p.report, c.name) # {}
            /\ \E row \in Range(p.report.rows) : row.op \in c.ops

\* Two phases in one file: PUT in [0,2], GET in [1,3]; each rate is count / 2
\* while the file ran 3.
C1_Witness ==
    \E p \in PrintedReports :
        /\ p.overall = 3
        /\ CatRecords(p.df, PUT_OPS) # {} /\ CatDuration(p.df, PUT_OPS) = 2
        /\ CatRecords(p.df, GET_OPS) # {} /\ CatDuration(p.df, GET_OPS) = 2
        /\ \E r1, r2 \in Range(p.report.rows) :
               /\ r1.op = "PUT" /\ r1.ops = Rate(1, 2)
               /\ r2.op = "GET" /\ r2.ops = Rate(1, 2)

(***************************************************************************)
(* C2: whenever files have been folded, the accumulated global window is   *)
(* (max of the per-file skip-adjusted starts, min of the per-file ends):   *)
(* the intersection of the per-file windows.                               *)
(***************************************************************************)
FileStarts == {Unwrap(file_results[i].file_start_ns) : i \in FileReports}
FileEnds == {Unwrap(file_results[i].file_end_ns) : i \in FileReports}

C2_GlobalWindowIsIntersection ==
    IF FileReports = {} THEN global_start_ns = None /\ global_end_ns = None
    ELSE /\ global_start_ns = Some(SetMax(FileStarts))
         /\ global_end_ns = Some(SetMin(FileEnds))

\* Windows [0,2] and [1,3] folded, in either order, into [1,2].
C2_Witness ==
    /\ Len(file_results) = 2
    /\ FileStarts = {0, 1}
    /\ FileEnds = {2, 3}
    /\ global_start_ns = Some(1)
    /\ global_end_ns = Some(2)

(***************************************************************************)
(* C3: a multi-file run whose folded range has global_start >= global_end  *)
(* ends without a consolidated report, and every input file has its own    *)
(* report, as it was printed when the file was processed.                  *)
(***************************************************************************)
AfterLoop == pc \in {"excel", "done"}
MultiFileRun == args.nfiles > 1 /\ ~args.basic_stats

C3_NoOverlap ==
    (AfterLoop /\ MultiFileRun
       /\ Unwrap(global_start_ns) >= Unwrap(global_end_ns)) =>
        /\ pc = "done"
        /\ consolidated = None
        /\ consolidated_excel = None
        /\ Len(file_results) = args.nfiles
        /\ \A i \in DOMAIN file_results :
               /\ IsSome(file_results[i].report)
               /\ file_results[i] = process_file(files[i], skip_nanos, FALSE)

\* Two files whose windows only touch (start = end) and the run is over.
C3_Witness ==
    /\ pc = "done"
    /\ MultiFileRun
    /\ Len(file_results) = 2
    /\ Unwrap(global_start_ns) = Unwrap(global_end_ns)
    /\ consolidated = None

(***************************************************************************)
(* C6: the bucket rows of every printed report are in ascending            *)
(* (bucket_num, op name) order, ties on the ordinal broken by the lexical  *)
(* order of the op names, and every permutation of the rows of the record  *)
(* set gives the same sequence of rows.                                    *)
(***************************************************************************)
\* The op names in lexical order.
OpOrder == <<"COPY", "DELETE", "GET", "HEAD", "LIST", "PUT", "STAT">>
OpPos(op) == CHOOSE i \in DOMAIN OpOrder : OpOrder[i] = op

RowBefore(a, b) ==
    \/ a.bucket_num < b.bucket_num
    \/ a.bucket_num = b.bucket_num /\ OpPos(a.op) < OpPos(b.op)

RowOrders(df) ==
    {[i \in DOMAIN df |-> df[f[i]]] :
        f \in {g \in [DOMAIN df -> DOMAIN df] : \A i, j \in DOMAIN df : i # j => g[i] # g[j]}}

C6_SortedRows ==
    \A p \in PrintedReports :
        /\ \A i, j \in DOMAIN p.report.rows :
               i < j => RowBefore(p.report.rows[i], p.report.rows[j])
        /\ \A q \in RowOrders(p.df) :
               compute_and_display_stats(q, p.report.run_time_secs, p.report.title).rows
                   = p.report.rows

\* PUT read before COPY, both in bucket 1: the report lists COPY first.
C6_Witness ==
    \E p \in PrintedReports :
        /\ Len(p.df) = 2
        /\ p.df[1].op = "PUT" /\ p.df[2].op = "COPY"
        /\ Len(p.report.rows) = 2
        /\ p.report.rows[1].op = "COPY" /\ p.report.rows[1].bucket_num = 1
        /\ p.report.rows[2].op = "PUT" /\ p.report.rows[2].bucket_num = 1

(***************************************************************************)
(* C7 (as claimed): with skip S on a file whose earliest start_ns is T,    *)
(* the records kept are exactly those with start_ns > T + S, and what      *)
(* process_file returns and prints is the same for any other file that     *)
(* has the same earliest start and the same kept records: the removed      *)
(* records decide nothing.                                                 *)
(***************************************************************************)
MinStart(file) == SetMin({r.start_ns : r \in Range(file)})
MaxEnd(file) == SetMax({r.end_ns : r \in Range(file)})
KeptAfter(file, S) == SelectSeq(file, LAMBDA r : r.start_ns > MinStart(file) + S)
RawRows(df) ==
    [i \in DOMAIN df |-> [op |-> df[i].op, bytes |-> df[i].bytes,
                          start_ns |-> df[i].start_ns, end_ns |-> df[i].end_ns]]

C7_SkipRemovesExactly ==
    \A i \in FileReports :
        IsSome(skip_nanos) =>
            /\ RawRows(file_results[i].df) = KeptAfter(files[i].rows, Unwrap(skip_nanos))
            /\ \A other \in FileInputs(MaxRecords) :
                   (/\ other.rows # <<>>
                    /\ other.columns = files[i].columns
                    /\ MinStart(other.rows) = MinStart(files[i].rows)
                    /\ KeptAfter(other.rows, Unwrap(skip_nanos))
                           = KeptAfter(files[i].rows, Unwrap(skip_nanos))) =>
                       process_file(other, skip_nanos, FALSE) = file_results[i]

(***************************************************************************)
(* C8 (as claimed): the overall run time of a file is max(end_ns) -        *)
(* min(start_ns) over the records that remain after the skip filter,       *)
(* whatever the order of the rows.                                         *)
(***************************************************************************)
C8_RunTimeIsMinToMax ==
    \A i \in FileReports :
        file_results[i].df # <<>> =>
            Unwrap(file_results[i].report).run_time_secs
                = MaxEnd(file_results[i].df) - MinStart(file_results[i].df)

(***************************************************************************)
(* C9: in every printed report, the rows and the summary row of a category *)
(* whose window max(end_ns) - min(start_ns) is not positive are divided by *)
(* the overall run time: of the file, or of the global window in the       *)
(* consolidated report.  (A category without records has no row at all.)   *)
(***************************************************************************)
C9_FallbackToOverall ==
    \A p \in PrintedReports : \A c \in Categories :
        /\ p.report.run_time_secs = p.overall
        /\ CatRecords(p.df, c.ops) = {} =>
               /\ SummaryOf(p.report, c.name) = {}
               /\ \A row \in Range(p.report.rows) : row.op \notin c.ops
        /\ (CatRecords(p.df, c.ops) # {} /\ CatDuration(p.df, c.ops) <= 0) =>
               /\ CategoryUses(p, c, p.overall)
               /\ SummaryOf(p.report, c.name) # {}

\* A file whose only GET is instantaneous while the file ran 2: the GET row
\* and the GET summary are divided by 2.
C9_Witness ==
    \E p \in PrintedReports :
        /\ p.overall = 2
        /\ CatRecords(p.df, GET_OPS) # {} /\ CatDuration(p.df, GET_OPS) = 0
        /\ \E row \in Range(p.report.rows) : row.op = "GET" /\ row.ops = Rate(1, 2)
        /\ \E row \in SummaryOf(p.report, "GET") : row.ops = Rate(1, 2)

(***************************************************************************)
(* C10 (as claimed): every rate that is printed, in bucket rows, category  *)
(* summaries and the grand total, per file and consolidated, has a         *)
(* strictly positive duration as its divisor.                              *)
(***************************************************************************)
C10_PositiveDurations ==
    \A p \in PrintedReports :
        /\ \A row \in Range(p.report.rows) \cup Range(p.report.summaries) :
               row.ops.den > 0 /\ row.xput.den > 0
        /\ p.report.total_ops_sec.den > 0

(***************************************************************************)
(* C11 (as claimed): in every printed report, the bucket rows whose op is  *)
(* outside META, GET and PUT are computed as count / D and                 *)
(* byte_sum / (1048576 * D), D being max(end_ns) - min(start_ns) over the  *)
(* records of those other operations, when that window is positive.        *)
(***************************************************************************)
NamedOps == META_OPS \cup GET_OPS \cup PUT_OPS
OtherOps(df) == {df[i].op : i \in DOMAIN df} \ NamedOps

C11_OtherEffectiveTime ==
    \A p \in PrintedReports :
        (CatRecords(p.df, OtherOps(p.df)) # {}
           /\ CatDuration(p.df, OtherOps(p.df)) > 0) =>
            \A row \in Range(p.report.rows) :
                row.op \in OtherOps(p.df) =>
                    RowDividesBy(row, Cardinality(RowIndices(p.df, row)),
                                 BytesOver(p.df, RowIndices(p.df, row)),
                                 CatDuration(p.df, OtherOps(p.df)))

(***************************************************************************)
(* C12: in every printed report and in every exported tab, a category      *)
(* (META, GET, PUT) has a summary row if and only if at least one record   *)
(* of the aggregated record set has its op in the category; the row is     *)
(* single and its count is the number of those records (never zero).       *)
(***************************************************************************)
\* The record set of every file, in file order, joined.
RECURSIVE JoinFrames(_)
JoinFrames(rs) == IF rs = <<>> THEN <<>> ELSE rs[1].df \o JoinFrames(Tail(rs))

\* The exported tabs, each with the record set it was computed from.
ExportedTabs ==
    {[df |-> file_results[i].df, rows |-> file_excel_data[i].main_rows] :
        i \in DOMAIN file_excel_data}
    \cup {[df |-> JoinFrames(file_results), rows |-> consolidated_excel[k].main_rows] :
             k \in DOMAIN consolidated_excel}

SummaryRows(rows, name) ==
    {i \in DOMAIN rows : rows[i].bytes_bucket = "ALL" /\ rows[i].op = name}

SummaryIffRecords(df, rows, c) ==
    LET n == Cardinality({j \in DOMAIN df : df[j].op \in c.ops})
    IN  /\ (SummaryRows(rows, c.name) # {}) <=> (n > 0)
        /\ Cardinality(SummaryRows(rows, c.name)) <= 1
        /\ \A i \in SummaryRows(rows, c.name) : rows[i].count = n

C12_SummaryIffNonEmpty ==
    \A c \in Categories :
        /\ \A p \in PrintedReports : SummaryIffRecords(p.df, p.report.summaries, c)
        /\ \A t \in ExportedTabs : SummaryIffRecords(t.df, t.rows, c)

\* A file of GET records only, printed and exported: one GET summary, no PUT
\* and no META summary.
C12_Witness ==
    /\ \E p \in PrintedReports :
           /\ p.df # <<>>
           /\ \A j \in DOMAIN p.df : p.df[j].op = "GET"
           /\ Len(p.report.summaries) = 1
           /\ p.report.summaries[1].op = "GET"
    /\ \E t \in ExportedTabs :
           /\ t.df # <<>>
           /\ \A j \in DOMAIN t.df : t.df[j].op = "GET"
           /\ SummaryRows(t.rows, "GET") # {}
           /\ SummaryRows(t.rows, "PUT") = {}

(***************************************************************************)
(* C14: the consolidated report is computed from the per-file record sets  *)
(* (as returned by process_file, after the skip filter) put one after the  *)
(* other: every record of every file is counted once, those outside the    *)
(* global window included, and none is added.                              *)
(***************************************************************************)
RECURSIVE SumLens(_)
SumLens(rs) == IF rs = <<>> THEN 0 ELSE Len(rs[1].df) + SumLens(Tail(rs))

\* Records of the run with the group key of row, over all files.
CountInFiles(row) ==
    SumSeq([i \in DOMAIN file_results |->
               Cardinality(RowIndices(file_results[i].df, row))])

OutsideWindow(r) ==
    r.start_ns < Unwrap(global_start_ns) \/ r.end_ns > Unwrap(global_end_ns)

C14_ConsolidatedIsConcatenation ==
    \A k \in DOMAIN consolidated :
        /\ all_dataframes = [i \in DOMAIN file_results |-> file_results[i].df]
        /\ consolidated[k].total_ops = SumLens(file_results)
        /\ \A row \in Range(consolidated[k].rows) : row.count = CountInFiles(row)
        /\ \A i \in DOMAIN file_results : \A r \in Range(file_results[i].df) :
               \E row \in Range(consolidated[k].rows) :
                   row.op = r.op /\ row.bucket_num = r.bucket_num
        /\ \A t \in DOMAIN consolidated_excel :
               consolidated_excel[t].main_rows
                   = collect_stats_rows(JoinFrames(file_results),
                         Unwrap(global_end_ns) - Unwrap(global_start_ns)).main_rows

\* Two files of one record each, windows [0,2] and [1,3]: both records lie
\* partly outside the global window [1,2] and both are in the consolidated
\* report.
C14_Witness ==
    /\ consolidated # None
    /\ Len(file_results) = 2
    /\ global_start_ns = Some(1) /\ global_end_ns = Some(2)
    /\ \A i \in DOMAIN file_results :
           /\ Len(file_results[i].df) = 1
           /\ OutsideWindow(file_results[i].df[1])
    /\ consolidated[1].total_ops = 2

(***************************************************************************)
(* C15: the grand total of every printed report counts the records of the  *)
(* aggregated record set (the sum of the counts of its bucket rows) and    *)
(* its rate is that count over the overall run time: the file's run time,  *)
(* or global_end - global_start in the consolidated report.                *)
(***************************************************************************)
C15_GrandTotal ==
    \A p \in PrintedReports :
        /\ p.report.total_ops = Len(p.df)
        /\ p.report.total_ops
               = SumSeq([i \in DOMAIN p.report.rows |-> p.report.rows[i].count])
        /\ p.report.total_ops_sec = Rate(Len(p.df), p.overall)

\* PUT in [0,2] then GET in [1,3]: each row is divided by its category's 2,
\* the grand total by the file's 3.
C15_Witness ==
    \E p \in PrintedReports :
        /\ p.overall = 3
        /\ Len(p.report.rows) = 2
        /\ \A row \in Range(p.report.rows) : row.runtime_s = 2
        /\ p.report.total_ops_sec = Rate(2, 3)

(***************************************************************************)
(* C16 (as claimed): a file that lacks a required column fails alone: when *)
(* the run is over, every file of the command line has been read, and      *)
(* every file that has its columns and a data row has its result.          *)
(***************************************************************************)
RunOver == pc \in {"done", "failed"}
LacksColumn(file) == file.rows # <<>> /\ required_columns \ file.columns # {}

C16_MissingColumnContinues ==
    (RunOver /\ \E i \in DOMAIN files : LacksColumn(files[i])) =>
        /\ Len(files) = args.nfiles
        /\ Len(file_results)
               = Cardinality({i \in DOMAIN files : read_tsv_file(files[i]).ok})

(***************************************************************************)
(* C17 (as claimed): no file whose record set is empty after the skip      *)
(* filter has a result: process_file fails on it, so no report, no grand   *)
(* total and no time window exist for it.                                  *)
(***************************************************************************)
C17_EmptyAfterSkipFails ==
    \A i \in DOMAIN file_results :
        (~args.basic_stats /\ file_results[i].df = <<>>) =>
            /\ ~file_results[i].ok
            /\ file_results[i].report = None
            /\ file_results[i].file_start_ns = None
            /\ file_results[i].file_end_ns = None

(***************************************************************************)
(* C18: a run whose skip argument is not <digits>s or <digits>m (digits    *)
(* 0-9, at least one) fails at the start of main: once past the start it   *)
(* is in the failed state, and no file has been read, no report printed    *)
(* and no workbook written.                                                *)
(***************************************************************************)
WellFormedSkip(a) ==
    /\ Len(a) >= 2
    /\ a[Len(a)] \in {"s", "m"}
    /\ \A i \in 1..(Len(a) - 1) : a[i] \in Range(AsciiDigits)

MalformedSkipRun == IsSome(args.skip) /\ ~WellFormedSkip(Unwrap(args.skip))

C18_MalformedSkipFailsFirst ==
    MalformedSkipRun =>
        /\ pc \in {"start", "failed"}
        /\ skip_nanos = None
        /\ files = <<>>
        /\ file_results = <<>>
        /\ all_dataframes = <<>>
        /\ consolidated = None
        /\ workbook = None

\* --skip 1h: the run has failed with nothing read.
C18_Witness ==
    /\ args.skip = Some(<<"1", "h">>)
    /\ pc = "failed"
    /\ files = <<>>

(***************************************************************************)
(* Latency aggregates of one group (SpecQuantile).                         *)
(*                                                                         *)
(* col("duration_ns").quantile(lit(q), QuantileMethod::Linear) / 1000.0:   *)
(* the column is sorted ascending, float_idx = (n - 1) * q, the value at   *)
(* floor(float_idx) is interpolated linearly towards the value at          *)
(* ceil(float_idx).  q is a whole number of hundredths (90, 95, 99) and    *)
(* the arithmetic is exact: a value v in ns is the fraction                *)
(* [num |-> 100 * v, den |-> 100], and in microseconds the same numerator  *)
(* over 100 * 1000.                                                        *)
(***************************************************************************)
PCT == 100
NS_PER_US == 1000

RECURSIVE InsertInt(_, _)
InsertInt(s, v) ==
    IF s = <<>> THEN <<v>>
    ELSE IF v < s[1] THEN <<v>> \o s
    ELSE <<s[1]>> \o InsertInt(Tail(s), v)

\* The column left in row order.
SortInts_mut(col) == col

RECURSIVE SortInts(_)
SortInts(col) ==
    IF col = <<>> THEN <<>>
    ELSE InsertInt(SortInts(SubSeq(col, 1, Len(col) - 1)), col[Len(col)])

\* The quantile with the lower neighbour taken, no interpolation.
quantile_linear_mut(col, pct) ==
    LET sorted == SortInts(col)
        float_idx == (Len(col) - 1) * pct
        base_idx == float_idx \div PCT
    IN  Rate(PCT * sorted[base_idx + 1], PCT)

quantile_linear(col, pct) ==
    LET sorted == SortInts(col)
        float_idx == (Len(col) - 1) * pct
        base_idx == float_idx \div PCT
        top_idx == IF float_idx % PCT = 0 THEN base_idx ELSE base_idx + 1
        lower == sorted[base_idx + 1]
        upper == sorted[top_idx + 1]
    IN  IF lower = upper THEN Rate(PCT * lower, PCT)
        ELSE Rate((float_idx - PCT * base_idx) * (upper - lower) + PCT * lower, PCT)

\* expr / lit(1000.0)
to_us(r) == Rate(r.num, r.den * NS_PER_US)

\* The latency expressions of the aggregation: mean is the sum over the
\* number of rows and median the 0.5 quantile, linearly interpolated.
agg_latency(col) ==
    [mean_lat_us |-> to_us(Rate(SumSeq(col), Len(col))),
     med_lat_us |-> to_us(quantile_linear(col, 50)),
     p90_lat_us |-> to_us(quantile_linear(col, 90)),
     p95_lat_us |-> to_us(quantile_linear(col, 95)),
     p99_lat_us |-> to_us(quantile_linear(col, 99)),
     max_lat_us |-> to_us(Rate(SetMax(Range(col)), 1))]

MaxLat == 3

\* Latencies in ns, and the ten latencies 1000 .. 10000 in descending order.
LatValues == {1, 1000, 2500, 10000}
Decade == [i \in 1..10 |-> (11 - i) * 1000]

InitQuantile ==
    /\ duration_ns \in SeqsUpTo(LatValues, MaxLat) \cup {Decade}
    /\ lat_stats = None
    /\ bytes_col = <<>>
    /\ bucket_cols = <<>>
    /\ IdleMain
    /\ IdleDetail
    /\ IdleSkip
    /\ IdleTabs

\* The aggregation of the group.
AggLatency ==
    /\ lat_stats = None
    /\ duration_ns # <<>>
    /\ lat_stats' = Some(agg_latency(duration_ns))
    /\ UNCHANGED <<duration_ns, detail_in, detail_out, mainVars, bucketVars,
                   skipVars, tabVars>>

NextQuantile == AggLatency

SpecQuantile == InitQuantile /\ [][NextQuantile]_vars

(***************************************************************************)
(* C13: with x[0..n-1] the latencies of the group in ascending order and   *)
(* h = p * (n - 1), each reported percentile p in {0.90, 0.95, 0.99} is    *)
(* (x[floor h] + (h - floor h) * (x[ceil h] - x[floor h])) / 1000; the p90 *)
(* of the latencies 1000, 2000, ..., 10000 is 9.1.                         *)
(***************************************************************************)
\* x[k]: the value with at most k smaller entries and more than k entries
\* not greater.
OrderStat(col, k) ==
    CHOOSE v \in Range(col) :
        /\ Cardinality({i \in DOMAIN col : col[i] < v}) <= k
        /\ Cardinality({i \in DOMAIN col : col[i] <= v}) > k

\* 100 * 1000 times the claimed percentile, in microseconds.
Type7Scaled(col, pct) ==
    LET h == pct * (Len(col) - 1)
        lo == h \div 100
        hi == IF h % 100 = 0 THEN lo ELSE lo + 1
    IN  100 * OrderStat(col, lo)
        + (h - 100 * lo) * (OrderStat(col, hi) - OrderStat(col, lo))

C13_Type7Percentiles ==
    \A k \in DOMAIN lat_stats :
        /\ lat_stats[k].p90_lat_us = Rate(Type7Scaled(duration_ns, 90), 100 * 1000)
        /\ lat_stats[k].p95_lat_us = Rate(Type7Scaled(duration_ns, 95), 100 * 1000)
        /\ lat_stats[k].p99_lat_us = Rate(Type7Scaled(duration_ns, 99), 100 * 1000)
        /\ duration_ns = Decade =>
               10 * lat_stats[k].p90_lat_us.num = 91 * lat_stats[k].p90_lat_us.den

\* The ten latencies aggregated: p90 = 910000 / 100000 = 9.1.
C13_Witness ==
    /\ duration_ns = Decade
    /\ lat_stats # None
    /\ lat_stats[1].p90_lat_us = Rate(910000, 100000)

(***************************************************************************)
(* Per-client and per-endpoint breakdowns (SpecDetail).                    *)
(*                                                                         *)
(* dim is the column name, "client_id" or "endpoint"; a record carries     *)
(* both values and the header says which of the two columns the dataframe  *)
(* has.  Every value is non-null.  A printed breakdown is None when it is  *)
(* skipped; collected rows are a sequence, empty when nothing is           *)
(* collected.  Latency columns are left out of the rows.                   *)
(***************************************************************************)
\* The values of a dimension in ascending (sort) order.
DimOrder(dim) == IF dim = "client_id" THEN <<"c1", "c2">> ELSE <<"e1", "e2">>

\* df.column(dim).unique(): the distinct values of the column.
unique(df, dim) == {df[i][dim] : i \in DOMAIN df}

\* group_by([col(dim)]) ... sort([dim]): the keys of the groups, sorted.
DimKeys(df, dim) == SelectSeq(DimOrder(dim), LAMBDA v : v \in unique(df, dim))

\* One row of a group_by(dim) aggregation: rates over run_time_secs.
DimRow(df, dim, key, run_time_secs) ==
    LET g == SelectSeq(df, LAMBDA r : r[dim] = key)
        cnt == Len(g)
        bsum == SumSeq([i \in DOMAIN g |-> g[i].bytes])
    IN  [key |-> key, count |-> cnt, bytes_sum |-> bsum,
         ops |-> Rate(cnt, run_time_secs), xput |-> Rate(bsum, MIB * run_time_secs)]

DimRows(df, dim, run_time_secs) ==
    LET keys == DimKeys(df, dim)
    IN  [i \in DOMAIN keys |-> DimRow(df, dim, keys[i], run_time_secs)]

\* The categories of the nested pass, in the order of the source.
categories == <<[name |-> "META", ops |-> META_OPS],
                [name |-> "GET", ops |-> GET_OPS],
                [name |-> "PUT", ops |-> PUT_OPS]>>

\* The nested pass: for each category with a row, the rows of
\* filter(op in category).group_by(dim); a category without rows is skipped.
RECURSIVE ByOp(_, _, _, _)
ByOp(df, dim, run_time_secs, k) ==
    IF k > Len(categories) THEN <<>>
    ELSE LET rows == DimRows(Filter(df, categories[k].ops), dim, run_time_secs)
         IN  (IF rows = <<>> THEN <<>>
              ELSE <<[op_name |-> categories[k].name, rows |-> rows]>>)
             \o ByOp(df, dim, run_time_secs, k + 1)

\* compute_and_print_per_client_stats / compute_and_print_per_endpoint_stats.
compute_and_print_per_dim_stats(df, columns, dim, run_time_secs) ==
    IF dim \notin columns THEN None
    ELSE IF Cardinality(unique(df, dim)) <= 1 THEN None
    ELSE Some([dim |-> dim,
               detected |-> Cardinality(unique(df, dim)),
               overall |-> DimRows(df, dim, run_time_secs),
               by_op |-> ByOp(df, dim, run_time_secs, 1)])

compute_and_print_per_client_stats(df, columns, run_time_secs) ==
    compute_and_print_per_dim_stats(df, columns, "client_id", run_time_secs)

compute_and_print_per_endpoint_stats(df, columns, run_time_secs) ==
    compute_and_print_per_dim_stats(df, columns, "endpoint", run_time_secs)

\* collect_per_client_rows / collect_per_endpoint_rows.
collect_per_dim_rows(df, columns, dim, run_time_secs) ==
    IF dim \notin columns THEN <<>>
    ELSE IF DimRows(df, dim, run_time_secs) = <<>> THEN <<>>
    ELSE <<[dim |-> dim,
            overall |-> DimRows(df, dim, run_time_secs),
            by_op |-> ByOp(df, dim, run_time_secs, 1)]>>

collect_per_client_rows(df, columns, run_time_secs) ==
    collect_per_dim_rows(df, columns, "client_id", run_time_secs)

collect_per_endpoint_rows(df, columns, run_time_secs) ==
    collect_per_dim_rows(df, columns, "endpoint", run_time_secs)

\* The detail rows of collect_stats_rows.
collect_detail_rows(df, columns, run_time_secs, per_client, per_endpoint) ==
    (IF per_client /\ "client_id" \in columns
     THEN collect_per_client_rows(df, columns, run_time_secs) ELSE <<>>)
    \o (IF per_endpoint /\ "endpoint" \in columns
        THEN collect_per_endpoint_rows(df, columns, run_time_secs) ELSE <<>>)

MaxDetailRows == 2

DetailOpBytes == {<<"LIST", 0>>, <<"GET", 8192>>, <<"PUT", 1>>}

DetailRecords ==
    {[op |-> ob[1], bytes |-> ob[2], start_ns |-> st, end_ns |-> st + d,
      client_id |-> c, endpoint |-> e] :
        ob \in DetailOpBytes, st \in StartTimes, d \in Durations,
        c \in Range(DimOrder("client_id")), e \in Range(DimOrder("endpoint"))}

\* The dataframe a report is computed from, the optional columns of its
\* header and the two flags of the command line.
InitDetail ==
    /\ \E rows \in SeqsUpTo(DetailRecords, MaxDetailRows),
          columns \in SUBSET {"client_id", "endpoint"},
          per_client \in BOOLEAN, per_endpoint \in BOOLEAN :
           detail_in = Some([df |-> rows, columns |-> columns,
                             per_client |-> per_client,
                             per_endpoint |-> per_endpoint])
    /\ detail_out = None
    /\ bytes_col = <<>>
    /\ bucket_cols = <<>>
    /\ IdleMain
    /\ IdleQuantile
    /\ IdleSkip
    /\ IdleTabs

\* The end of compute_and_display_stats and of collect_stats_rows on the
\* dataframe of a file read without skip: what is printed and what is
\* collected for the detail tab.
Breakdowns ==
    /\ detail_out = None
    /\ IsSome(detail_in)
    /\ LET in == Unwrap(detail_in)
           range == get_time_range(in.df)
           run_time_secs == range[2] - range[1]
       IN  detail_out' =
               Some([run_time_secs |-> run_time_secs,
                     per_client |->
                         IF in.per_client
                         THEN compute_and_print_per_client_stats(
                                  in.df, in.columns, run_time_secs)
                         ELSE None,
                     per_endpoint |->
                         IF in.per_endpoint
                         THEN compute_and_print_per_endpoint_stats(
                                  in.df, in.columns, run_time_secs)
                         ELSE None,
                     detail_rows |->
                         collect_detail_rows(in.df, in.columns, run_time_secs,
                                             in.per_client, in.per_endpoint)])
    /\ UNCHANGED <<detail_in, duration_ns, lat_stats, mainVars, bucketVars,
                   skipVars, tabVars>>

NextDetail == Breakdowns

SpecDetail == InitDetail /\ [][NextDetail]_vars

\* The breakdowns produced, printed or collected, each with its dataframe.
BreakdownOf(where, b) ==
    [df |-> detail_in[1].df, columns |-> detail_in[1].columns,
     run_time_secs |-> detail_out[1].run_time_secs, where |-> where, b |-> b]

ProducedBreakdowns ==
    IF detail_out = None THEN {}
    ELSE {BreakdownOf("console", b) :
             b \in Range(detail_out[1].per_client) \cup Range(detail_out[1].per_endpoint)}
         \cup {BreakdownOf("excel", b) : b \in Range(detail_out[1].detail_rows)}

(***************************************************************************)
(* C19 (as claimed): a breakdown by client_id (by endpoint) is produced,   *)
(* printed or collected, only for a dataframe that has the column and at   *)
(* least two distinct values in it.                                        *)
(***************************************************************************)
C19_BreakdownOnlyIfTwoValues ==
    \A p \in ProducedBreakdowns :
        /\ p.b.dim \in p.columns
        /\ Cardinality({p.df[i][p.b.dim] : i \in DOMAIN p.df}) >= 2

(***************************************************************************)
(* C20 (as claimed): in the nested (dimension, category) pass of every     *)
(* breakdown, the rows of a category whose window max(end_ns) -            *)
(* min(start_ns) is positive are count / D and byte_sum / (1048576 * D),   *)
(* D being that window.                                                    *)
(***************************************************************************)
C20_NestedUsesCategoryTime ==
    \A p \in ProducedBreakdowns : \A c \in Categories :
        \A sec \in Range(p.b.by_op) :
            (sec.op_name = c.name /\ CatDuration(p.df, c.ops) > 0) =>
                \A row \in Range(sec.rows) :
                    /\ row.ops = Rate(row.count, CatDuration(p.df, c.ops))
                    /\ row.xput = Rate(row.bytes_sum, MIB * CatDuration(p.df, c.ops))

(***************************************************************************)
(* C21: whenever main is past the loop, or a consolidated report or        *)
(* consolidated export rows exist, every file of the command line has      *)
(* been processed and its record set collected; and the step that produces *)
(* the consolidated report is taken from such a state only.                *)
(***************************************************************************)
AllFilesIn ==
    /\ Len(files) = args.nfiles
    /\ Len(file_results) = args.nfiles
    /\ ~args.basic_stats => Len(all_dataframes) = args.nfiles

C21_ConsolidationAfterAllFiles ==
    (AfterLoop \/ consolidated # None \/ consolidated_excel # None) =>
        /\ AllFilesIn
        /\ consolidated # None =>
               /\ FileReports = DOMAIN files
               /\ consolidated[1].total_ops = SumLens(file_results)
               /\ consolidated[1].run_time_secs
                      = SetMin(FileEnds) - SetMax(FileStarts)

\* Two files processed, then the consolidated report.
C21_Witness ==
    /\ consolidated # None
    /\ args.nfiles = 2
    /\ Len(file_results) = 2
    /\ \A i \in DOMAIN file_results : file_results[i].df # <<>>

(***************************************************************************)
(* C22 (as claimed): every window (skip-adjusted start, end) returned by   *)
(* process_file and folded by main has end_ns >= start_ns.                 *)
(***************************************************************************)
C22_WindowOrdered ==
    \A i \in FileReports :
        Unwrap(file_results[i].file_end_ns) >= Unwrap(file_results[i].file_start_ns)

(***************************************************************************)
(* C26 (as claimed): a multi-file run with Excel export in which a file    *)
(* produced report rows ends with the workbook written, one Results tab    *)
(* per file, also when the windows of the files do not overlap.            *)
(***************************************************************************)
C26_WorkbookAlwaysWritten ==
    (pc = "done" /\ args.excel /\ MultiFileRun /\ file_excel_data # <<>>) =>
        /\ workbook # None
        /\ \A i \in DOMAIN file_excel_data :
               \E t \in Range(Unwrap(workbook)) :
                   t.tab = "Results" /\ t.rows = file_excel_data[i].main_rows

(***************************************************************************)
(* C27 (as claimed): in every per-file report, the window of each named    *)
(* category with a record lies inside the file window [effective start,    *)
(* end], so the category's duration is at most the file's run time.        *)
(***************************************************************************)
C27_CategoryInsideFileWindow ==
    \A i \in FileReports : \A c \in Categories :
        CatRecords(file_results[i].df, c.ops) # {} =>
            /\ \A r \in CatRecords(file_results[i].df, c.ops) :
                   /\ r.start_ns >= Unwrap(file_results[i].file_start_ns)
                   /\ r.end_ns <= Unwrap(file_results[i].file_end_ns)
            /\ compute_op_run_time(file_results[i].df, c.ops)
                   <= Unwrap(file_results[i].report).run_time_secs

(***************************************************************************)
(* C28 (as claimed): a file holding the same records in another row order  *)
(* gives the same report (bucket rows, rates, summaries, grand total) and  *)
(* the same window.                                                        *)
(***************************************************************************)
C28_RowOrderIrrelevant ==
    \A i \in FileReports :
        \A q \in RowOrders(files[i].rows) :
            LET other == process_file([columns |-> files[i].columns, rows |-> q],
                                      skip_nanos, FALSE)
            IN  /\ other.report = file_results[i].report
                /\ other.file_start_ns = file_results[i].file_start_ns
                /\ other.file_end_ns = file_results[i].file_end_ns

(***************************************************************************)
(* C29: in every printed report and for each named category, the bucket    *)
(* rows whose op belongs to the category are summarised by exactly one     *)
(* summary row, whose count is the sum of their counts, whose byte sum is  *)
(* the sum of their byte sums, and whose effective time is theirs.         *)
(***************************************************************************)
CategoryRows(report, ops) == SelectSeq(report.rows, LAMBDA r : r.op \in ops)

C29_SummaryIsSumOfBucketRows ==
    \A p \in PrintedReports : \A c \in Categories :
        LET rows == CategoryRows(p.report, c.ops)
        IN  rows # <<>> =>
                /\ Cardinality(SummaryOf(p.report, c.name)) = 1
                /\ \A s \in SummaryOf(p.report, c.name) :
                       /\ s.count = SumSeq([i \in DOMAIN rows |-> rows[i].count])
                       /\ s.bytes_sum = SumSeq([i \in DOMAIN rows |-> rows[i].bytes_sum])
                       /\ \A i \in DOMAIN rows : rows[i].runtime_s = s.runtime_s

\* A report whose META category is spread over two bucket rows.
C29_Witness ==
    \E p \in PrintedReports :
        /\ Len(CategoryRows(p.report, META_OPS)) = 2
        /\ \E s \in SummaryOf(p.report, "META") : s.count = 2

(***************************************************************************)
(* C30: the latency statistics of a non-empty group of non-negative        *)
(* latencies are ordered: median <= p90 <= p95 <= p99 <= max, and          *)
(* mean <= max.                                                            *)
(***************************************************************************)
\* a <= b for two quotients with positive denominators.
FracLeq(a, b) ==
    IF a.den = b.den THEN a.num <= b.num
    ELSE a.num * b.den <= b.num * a.den

C30_LatencyStatsOrdered ==
    \A k \in DOMAIN lat_stats :
        /\ FracLeq(lat_stats[k].med_lat_us, lat_stats[k].p90_lat_us)
        /\ FracLeq(lat_stats[k].p90_lat_us, lat_stats[k].p95_lat_us)
        /\ FracLeq(lat_stats[k].p95_lat_us, lat_stats[k].p99_lat_us)
        /\ FracLeq(lat_stats[k].p99_lat_us, lat_stats[k].max_lat_us)
        /\ FracLeq(lat_stats[k].mean_lat_us, lat_stats[k].max_lat_us)

\* Three distinct latencies, not in ascending row order, with the median
\* strictly below p90 and p99 strictly below the maximum.
C30_Witness ==
    /\ lat_stats # None
    /\ duration_ns = <<10000, 1, 2500>>
    /\ lat_stats[1].med_lat_us = Rate(250000, 100000)
    /\ lat_stats[1].med_lat_us.num < lat_stats[1].p90_lat_us.num
    /\ ~FracLeq(lat_stats[1].max_lat_us, lat_stats[1].p99_lat_us)

(***************************************************************************)
(* C24: the rows exported for a record set and a run time are, after the   *)
(* header, the bucket rows of the console report of the same record set    *)
(* and run time, in the same order and with the same count, effective      *)
(* runtime, ops/sec and MiB/sec, followed by the same summary rows (META   *)
(* 97, GET 98, PUT 99).  Values are compared before they are formatted.    *)
(***************************************************************************)
Mirrors(rows, report) == rows = report.rows \o report.summaries

C24_ExportMirrorsConsole ==
    /\ \A i \in DOMAIN file_excel_data :
           /\ file_excel_data[i].header = "op"
           /\ Mirrors(file_excel_data[i].main_rows, Unwrap(file_results[i].report))
    /\ \A k \in DOMAIN consolidated_excel :
           /\ consolidated # None
           /\ Mirrors(consolidated_excel[k].main_rows, consolidated[1])

\* An exported file whose META window is empty (the fallback to the run
\* time is taken) next to a GET row and its summary.
C24_Witness ==
    \E i \in DOMAIN file_excel_data :
        LET rows == file_excel_data[i].main_rows
        IN  /\ Len(rows) = 4
            /\ rows[1].op = "LIST" /\ rows[1].runtime_s = 2
            /\ rows[2].op = "GET"
            /\ rows[3].op = "META" /\ rows[3].bucket_num = 97
            /\ rows[4].op = "GET" /\ rows[4].bucket_num = 98
            /\ compute_op_run_time(file_results[i].df, META_OPS) = 0

(***************************************************************************)
(* parse_skip_time in 64 bits (SpecSkip).                                  *)
(*                                                                         *)
(* An integer that does not fit the model checker is a decimal numeral:    *)
(* the sequence of its digits, most significant first, without leading     *)
(* zeros (<<>> is 0).  An i64 is a sign and a numeral.  str::parse::<i64>  *)
(* fails on a value above i64::MAX.  The products value * 1_000_000_000    *)
(* and value * 60 * 1_000_000_000 are unchecked i64 multiplications: with  *)
(* overflow checks (the dev profile) an overflow panics, without them (the *)
(* release profile) the product wraps modulo 2^64.                         *)
(***************************************************************************)
I64_MAX == <<9, 2, 2, 3, 3, 7, 2, 0, 3, 6, 8, 5, 4, 7, 7, 5, 8, 0, 7>>
TWO_63 == <<9, 2, 2, 3, 3, 7, 2, 0, 3, 6, 8, 5, 4, 7, 7, 5, 8, 0, 8>>
TWO_64 == <<1, 8, 4, 4, 6, 7, 4, 4, 0, 7, 3, 7, 0, 9, 5, 5, 1, 6, 1, 6>>
NANOS_PER_SEC_ZEROS == 9
SECS_PER_MIN == 60

Front(a) == SubSeq(a, 1, Len(a) - 1)

RECURSIVE Norm(_)
Norm(a) == IF a # <<>> /\ a[1] = 0 THEN Norm(Tail(a)) ELSE a

Pad(a, n) == [i \in 1..(n - Len(a)) |-> 0] \o a

\* a < b, on numerals.
DecLess(a, b) ==
    \/ Len(a) < Len(b)
    \/ Len(a) = Len(b) /\ LexLess(a, b)

RECURSIVE DecOfInt(_)
DecOfInt(n) == IF n = 0 THEN <<>> ELSE Append(DecOfInt(n \div 10), n % 10)

\* a * k + c for a small k.
RECURSIVE MulC(_, _, _)
MulC(a, k, c) ==
    IF a = <<>> THEN DecOfInt(c)
    ELSE LET t == a[Len(a)] * k + c
         IN  Append(MulC(Front(a), k, t \div 10), t % 10)

DecMul(a, k) == Norm(MulC(a, k, 0))

\* a * 10^n
DecShift(a, n) == IF a = <<>> THEN <<>> ELSE a \o [i \in 1..n |-> 0]

\* a - b - borrow for digit sequences of the same length, a >= b.
RECURSIVE SubB(_, _, _)
SubB(a, b, borrow) ==
    IF a = <<>> THEN <<>>
    ELSE LET t == a[Len(a)] - b[Len(b)] - borrow
         IN  Append(SubB(Front(a), Front(b), IF t < 0 THEN 1 ELSE 0),
                    IF t < 0 THEN t + 10 ELSE t)

DecSub(a, b) == Norm(SubB(a, Pad(b, Len(a)), 0))

RECURSIVE Reduce(_, _)
Reduce(a, m) == IF DecLess(a, m) THEN a ELSE Reduce(DecSub(a, m), m)

\* (acc * 10^Len(rest) + rest) mod m for acc < m, digit by digit.
RECURSIVE ModAcc(_, _, _)
ModAcc(acc, rest, m) ==
    IF Len(acc) >= 0 /\ rest = <<>> THEN acc
    ELSE ModAcc(Reduce(Norm(Append(acc, rest[1])), m), Tail(rest), m)

DecMod(a, m) == ModAcc(<<>>, a, m)

\* The i64 with the bit pattern of a mod 2^64.
wrapping(a) ==
    LET r == DecMod(a, TWO_64)
    IN  IF DecLess(r, TWO_63) THEN [neg |-> FALSE, mag |-> r]
        ELSE [neg |-> TRUE, mag |-> DecSub(TWO_64, r)]

\* The product the match on the unit asks for, as a number.
skip_product(value, unit) ==
    IF unit = "s" THEN DecShift(value, NANOS_PER_SEC_ZEROS)
    ELSE DecShift(DecMul(value, SECS_PER_MIN), NANOS_PER_SEC_ZEROS)

parse_skip_time_i64(skip, overflow_checks) ==
    LET n == Len(skip)
        matches == /\ n >= 2
                   /\ skip[n] \in {"s", "m"}
                   /\ \A i \in 1..(n - 1) : skip[i] \in UnicodeDigits
        digits == SubSeq(skip, 1, n - 1)
        value == Norm([i \in DOMAIN digits |-> DigitValue(digits[i])])
        nanos == skip_product(value, skip[n])
        zero == [neg |-> FALSE, mag |-> <<>>]
    IN  IF ~matches THEN
            [ok |-> FALSE, err |-> "InvalidSkipFormat", nanos |-> zero]
        ELSE IF \E i \in DOMAIN digits : digits[i] \notin Range(AsciiDigits) THEN
            [ok |-> FALSE, err |-> "ParseIntError", nanos |-> zero]
        ELSE IF DecLess(I64_MAX, value) THEN
            [ok |-> FALSE, err |-> "ParseIntError", nanos |-> zero]
        ELSE IF ~DecLess(I64_MAX, nanos) THEN
            [ok |-> TRUE, err |-> "", nanos |-> [neg |-> FALSE, mag |-> nanos]]
        ELSE IF overflow_checks THEN
            [ok |-> FALSE, err |-> "panic: attempt to multiply with overflow", nanos |-> zero]
        ELSE
            [ok |-> TRUE, err |-> "", nanos |-> wrapping(nanos)]

MaxSkipLen == 3

SkipChars == {"0", "1", "9", "s", "m", "h"}

Chars(ds, unit) == [i \in DOMAIN ds |-> AsciiDigits[ds[i] + 1]] \o <<unit>>

\* Arguments around the limits: the largest number of seconds and of
\* minutes whose nanoseconds fit an i64 and the next ones, i64::MAX and
\* the next number.
LongSkips ==
    {Chars(<<9, 2, 2, 3, 3, 7, 2, 0, 3, 6>>, "s"),
     Chars(<<9, 2, 2, 3, 3, 7, 2, 0, 3, 7>>, "s"),
     Chars(<<1, 5, 3, 7, 2, 2, 8, 6, 7>>, "m"),
     Chars(<<1, 5, 3, 7, 2, 2, 8, 6, 8>>, "m"),
     Chars(I64_MAX, "s"), Chars(I64_MAX, "m"),
     Chars(TWO_63, "s"), Chars(TWO_63, "m")}

InitSkip ==
    /\ skip_arg \in SeqsUpTo(SkipChars, MaxSkipLen) \cup LongSkips
    /\ skip_out = None
    /\ bytes_col = <<>>
    /\ bucket_cols = <<>>
    /\ IdleMain
    /\ IdleQuantile
    /\ IdleDetail
    /\ IdleTabs

\* The call, in a build with or without overflow checks.
ParseSkipArg ==
    /\ skip_out = None
    /\ \E overflow_checks \in BOOLEAN :
           skip_out' = Some(parse_skip_time_i64(skip_arg, overflow_checks))
    /\ UNCHANGED <<skip_arg, duration_ns, lat_stats, detail_in, detail_out, tabVars,
                   mainVars, bucketVars>>

NextSkip == ParseSkipArg

SpecSkip == InitSkip /\ [][NextSkip]_vars

(***************************************************************************)
(* C23 (as claimed): parse_skip_time accepts exactly the arguments         *)
(* <digits>s and <digits>m; for an accepted argument it returns the i64    *)
(* that is N * 10^9 for Ns and N * 60 * 10^9 for Nm, a non-negative value  *)
(* equal to that product; every other argument is rejected with an error   *)
(* of the parser.                                                          *)
(***************************************************************************)
DigitsAndUnit(skip) ==
    /\ Len(skip) >= 2
    /\ skip[Len(skip)] \in {"s", "m"}
    /\ \A i \in 1..(Len(skip) - 1) : skip[i] \in Range(AsciiDigits)

\* N * 10^9 or N * 60 * 10^9, by repeated multiplication by ten and by six.
RECURSIVE TimesTen(_, _)
TimesTen(a, n) == IF n = 0 THEN a ELSE TimesTen(DecMul(a, 10), n - 1)

ClaimedNanos(skip) ==
    LET N == Norm([i \in 1..(Len(skip) - 1) |-> DigitValue(skip[i])])
    IN  IF skip[Len(skip)] = "s" THEN TimesTen(N, 9)
        ELSE TimesTen(DecMul(N, 6), 10)

C23_SkipNanosExact ==
    \A k \in DOMAIN skip_out :
        IF DigitsAndUnit(skip_arg)
        THEN /\ skip_out[k].ok
             /\ ~skip_out[k].nanos.neg
             /\ skip_out[k].nanos.mag = ClaimedNanos(skip_arg)
        ELSE /\ ~skip_out[k].ok
             /\ skip_out[k].err \in {"InvalidSkipFormat", "ParseIntError"}

(***************************************************************************)
(* The worksheet names of the Excel block (SpecTabs).  A path, a name and  *)
(* a worksheet name are sequences of characters (all of one byte).         *)
(***************************************************************************)
SHORT_NAME_MAX == 20
TAB_NAME_MAX == 31

\* Path::file_name: what follows the last separator ("file" when nothing does).
RECURSIVE file_name(_)
file_name(path) ==
    IF path = <<>> THEN <<"f", "i", "l", "e">>
    ELSE IF \E i \in DOMAIN path : path[i] = "/"
        THEN file_name(Tail(path))
    ELSE path

has_suffix(name, suffix) ==
    /\ Len(name) >= Len(suffix)
    /\ SubSeq(name, Len(name) - Len(suffix) + 1, Len(name)) = suffix

\* name.strip_suffix(suffix).unwrap_or(name)
strip_suffix(name, suffix) ==
    IF has_suffix(name, suffix) THEN SubSeq(name, 1, Len(name) - Len(suffix)) ELSE name

RECURSIVE trim_end_matches(_, _)
trim_end_matches(name, chars) ==
    IF name # <<>> /\ name[Len(name)] \in chars
    THEN trim_end_matches(Front(name), chars)
    ELSE name

derive_short_name(file_path) ==
    LET name0 == file_name(file_path)
        name1 == strip_suffix(name0, <<".", "z", "s", "t">>)
        name2 == IF has_suffix(name1, <<".", "c", "s", "v">>)
                 THEN strip_suffix(name1, <<".", "c", "s", "v">>)
                 ELSE strip_suffix(name1, <<".", "t", "s", "v">>)
        name3 == IF \E i \in DOMAIN name2 : name2[i] = "["
                 THEN SubSeq(name2, 1,
                             (CHOOSE i \in DOMAIN name2 :
                                 /\ name2[i] = "["
                                 /\ \A j \in 1..(i - 1) : name2[j] # "[") - 1)
                 ELSE name2
        name4 == trim_end_matches(name3, {"-", "_", "."})
    IN  IF Len(name4) > SHORT_NAME_MAX THEN SubSeq(name4, 1, SHORT_NAME_MAX) ELSE name4

\* An integer written in decimal.
to_string(n) ==
    IF n = 0 THEN <<"0">>
    ELSE [i \in DOMAIN DecOfInt(n) |-> AsciiDigits[DecOfInt(n)[i] + 1]]

\* The names of the files when there are several: a name that occurs more
\* than once gets the suffix -1, -2, ... in the order of the files.
short_names(raw) ==
    LET tally(n) == Cardinality({j \in DOMAIN raw : raw[j] = n})
        counter(i) == 1 + Cardinality({j \in 1..(i - 1) : raw[j] = raw[i]})
    IN  [i \in DOMAIN raw |->
            IF tally(raw[i]) > 1 THEN raw[i] \o <<"-">> \o to_string(counter(i))
            ELSE raw[i]]

make_tab_name(base, suffix) ==
    LET full == base \o <<"-">> \o suffix
    IN  IF Len(full) <= TAB_NAME_MAX THEN full
        ELSE LET max_base == Max(TAB_NAME_MAX - (Len(suffix) + 1), 0)
             IN  SubSeq(base, 1, Min(max_base, Len(base))) \o <<"-">> \o suffix

Results == <<"R", "e", "s", "u", "l", "t", "s">>
Detail == <<"D", "e", "t", "a", "i", "l">>

\* The names the Excel block gives to the files of file_excel_data.
file_tab_names(paths) ==
    LET single == Len(paths) = 1
        short == IF single THEN <<<<>>>>
                 ELSE short_names([i \in DOMAIN paths |-> derive_short_name(paths[i])])
    IN  [short |-> short,
         results |-> [i \in DOMAIN paths |->
                         IF single THEN Results ELSE make_tab_name(short[i], Results)],
         detail |-> [i \in DOMAIN paths |->
                        IF single THEN Detail ELSE make_tab_name(short[i], Detail)]]

MaxTabFiles == 3

Twenty == [i \in 1..SHORT_NAME_MAX |-> "x"]

\* a.csv, d/a.csv, a-1.csv, a.tsv.zst, a[t].csv, b_.csv and two names of
\* 21 characters with the same first 20.
TabPaths ==
    {<<"a", ".", "c", "s", "v">>,
     <<"d", "/", "a", ".", "c", "s", "v">>,
     <<"a", "-", "1", ".", "c", "s", "v">>,
     <<"a", ".", "t", "s", "v", ".", "z", "s", "t">>,
     <<"a", "[", "t", "]", ".", "c", "s", "v">>,
     <<"b", "_", ".", "c", "s", "v">>,
     Twenty \o <<"a", ".", "c", "s", "v">>,
     Twenty \o <<"b", ".", "c", "s", "v">>}

InitTabs ==
    /\ tab_files \in SeqsUpTo(TabPaths, MaxTabFiles)
    /\ tab_names = None
    /\ bytes_col = <<>>
    /\ bucket_cols = <<>>
    /\ IdleMain
    /\ IdleQuantile
    /\ IdleDetail
    /\ IdleSkip

\* The names are computed.
NameTabs ==
    /\ tab_names = None
    /\ tab_names' = Some(file_tab_names(tab_files))
    /\ UNCHANGED <<tab_files, duration_ns, lat_stats, detail_in, detail_out, skipVars,
                   mainVars, bucketVars>>

NextTabs == NameTabs

SpecTabs == InitTabs /\ [][NextTabs]_vars

(***************************************************************************)
(* C25 (as claimed): for two or more files, the short names (derived name  *)
(* plus the suffix of a duplicated name) are pairwise distinct, and so are *)
(* the Results worksheet names and the Detail worksheet names.             *)
(***************************************************************************)
Injective(f) == \A i, j \in DOMAIN f : i # j => f[i] # f[j]

C25_TabNamesDistinct ==
    \A k \in DOMAIN tab_names :
        Len(tab_files) >= 2 =>
            /\ Injective(tab_names[k].short)
            /\ Injective(tab_names[k].results)
            /\ Injective(tab_names[k].detail)

=============================================================================
